---- MODULE Spec2Model ----
(***************************************************************************)
(* A model of CSV_Agent.ipynb: the start-up cells, extract_schema_info,    *)
(* the query_dataframe tool, init_model, run_agent and main's loop.        *)
(*                                                                         *)
(* Text is a sequence of chunks (a Python str is the concatenation of its  *)
(* chunks); a dict is a record with a "keys" set beside its fields.        *)
(***************************************************************************)
EXTENDS Integers, Sequences, FiniteSets, TLC

\* ------------------------------------------------------------- bounds
MaxTurns == 3          \* input lines main reads before the model stops
MaxInitRows == 11      \* rows of the largest CSV the model loads

\* ---------------------------------------------------- program constants
TruncateOver == 10     \* len(result) > 10
HeadRows == 5          \* result.head(5)
SampleRows == 3        \* dataframe.head(3)

\* --------------------------------------------------------------- text
DigitChar == <<"0", "1", "2", "3", "4", "5", "6", "7", "8", "9">>

RECURSIVE NatToStr(_)
\* str(n) of a non-negative int, as the f-strings render len(result)
NatToStr(n) ==
    IF n < 10 THEN <<DigitChar[n + 1]>>
    ELSE NatToStr(n \div 10) \o <<DigitChar[(n % 10) + 1]>>

RECURSIVE Concat(_)
\* the concatenation of a sequence of texts
Concat(ss) == IF ss = <<>> THEN <<>> ELSE Head(ss) \o Concat(Tail(ss))

\* str.lower() on one character
LowerChar(c) ==
    CASE c = "E" -> "e" [] c = "X" -> "x" [] c = "I" -> "i" [] c = "T" -> "t"
      [] c = "Q" -> "q" [] c = "U" -> "u" [] OTHER -> c

\* question.lower()
Lower(s) == [i \in 1..Len(s) |-> LowerChar(s[i])]

\* the lines the user may type
Lines ==
    { <<"e", "x", "i", "t">>, <<"E", "x", "i", "T">>, <<"Q", "U", "I", "T">>,
      <<"e", "x", "i", "t", "s">>, <<"t", "o", "p">> }

\* ('exit', 'quit') of main
ExitWords == { <<"e", "x", "i", "t">>, <<"q", "u", "i", "t">> }

\* ------------------------------------------------------------ the Table
\* a cell: its Python type and its str()
IntCell(n) == [t |-> "int", s |-> NatToStr(n)]
StrCell(s) == [t |-> "str", s |-> s]

BranchOf(i) == <<<<"A">>, <<"B">>, <<"C">>>>[(i % 3) + 1]

\* pd.read_csv(file_path) of a file of n data rows with columns Branch, Total
ReadCsv(n) ==
    [ columns |-> <<"Branch", "Total">>,
      dtypes  |-> <<"object", "int64">>,
      rows    |-> [i \in 1..n |->
                     [label |-> i - 1,
                      cells |-> <<StrCell(BranchOf(i)), IntCell(i)>>]] ]

InitRowCounts == {0, 2, TruncateOver, MaxInitRows}

\* seq.head(k): the first k elements
HeadOf(seq, k) == SubSeq(seq, 1, IF k < Len(seq) THEN k ELSE Len(seq))

\* the position of column c, 0 when absent
ColPos(frame, c) ==
    IF \E i \in 1..Len(frame.columns) : frame.columns[i] = c
    THEN CHOOSE i \in 1..Len(frame.columns) : frame.columns[i] = c
    ELSE 0

\* a sequence without its element at position p
RemoveAt(seq, p) ==
    [i \in 1..(Len(seq) - 1) |-> IF i < p THEN seq[i] ELSE seq[i + 1]]

\* -------------------------------------------------- extract_schema_info
\* dataframe.head(3).to_dict('records'): per row the (column, value) pairs
SampleData(frame) ==
    [i \in 1..Len(HeadOf(frame.rows, SampleRows)) |->
        [j \in 1..Len(frame.columns) |->
            [col |-> frame.columns[j], val |-> frame.rows[i].cells[j]]]]

ColumnsOfDtype(frame, dt) ==
    LET keep == {j \in 1..Len(frame.columns) : frame.dtypes[j] = dt}
        F[j \in 0..Len(frame.columns)] ==
            IF j = 0 THEN <<>>
            ELSE IF j \in keep THEN Append(F[j - 1], frame.columns[j])
            ELSE F[j - 1]
    IN  F[Len(frame.columns)]

extract_schema_info(frame) ==
    [ columns     |-> frame.columns,
      dtypes      |-> [j \in 1..Len(frame.columns) |->
                         [col |-> frame.columns[j], dtype |-> frame.dtypes[j]]],
      sample_data |-> SampleData(frame),
      summary     |-> [ rows |-> Len(frame.rows),
                        columns |-> Len(frame.columns),
                        numeric_columns |-> ColumnsOfDtype(frame, "int64"),
                        categorical_columns |-> ColumnsOfDtype(frame, "object"),
                        datetime_columns |-> ColumnsOfDtype(frame, "datetime64[ns]") ] ]

\* --------------------------------------------------------- Python values
EmptyFrame == [columns |-> <<>>, dtypes |-> <<>>, rows |-> <<>>]
NoExc == [cls |-> "", msg |-> <<>>]

\* a value eval can return: a DataFrame (frame), a Series (items), or any
\* other object, of which only str() matters (text)
FrameVal(f) == [type |-> "DataFrame", frame |-> f, items |-> <<>>, text |-> <<>>]
SeriesVal(it) == [type |-> "Series", frame |-> EmptyFrame, items |-> it, text |-> <<>>]
OtherVal(ty, tx) == [type |-> ty, frame |-> EmptyFrame, items |-> <<>>, text |-> tx]
NoneVal == OtherVal("NoneType", <<"None">>)

\* the classes derived from Exception among those the model raises;
\* SystemExit and KeyboardInterrupt derive from BaseException alone
ExceptionClasses ==
    {"ValueError", "KeyError", "NameError", "SyntaxError", "TypeError",
     "ConnectionError", "ImportError", "MemoryError"}
BaseOnlyClasses == {"SystemExit", "KeyboardInterrupt"}

\* df[c] as a Series
ColumnSeries(frame, c) ==
    [i \in 1..Len(frame.rows) |->
        [label |-> frame.rows[i].label, val |-> frame.rows[i].cells[ColPos(frame, c)]]]

\* ------------------------------------------------- the Query Expressions
\* An expression string is modelled by what eval makes of it.
Expr(op, col, n) == [op |-> op, col |-> col, n |-> n]

Exprs ==
    { Expr("df", "", 0),                 \* df
      Expr("getitem", "Total", 0),       \* df['Total']
      Expr("getitem", "BadColumn", 0),   \* df['BadColumn']
      Expr("shape", "", 0),              \* df.shape[0]
      Expr("open", "", 0),               \* open('rows.csv').read()
      Expr("syntax", "", 0),             \* df[
      Expr("add", "Branch", 1),          \* df['Branch'] + 1
      Expr("exit", "", 0),               \* pd.io.common.os.sys.exit()
      Expr("drop_col", "Total", 0),      \* df.drop(columns=['Total'], inplace=True)
      Expr("insert", "New", 0),          \* df.insert(0, 'New', 7)
      Expr("astype", "Total", 0),        \* df.__setitem__('Total', df['Total'].astype(str))
      Expr("assign", "Total", 0),        \* df.__setitem__('Total', 0)
      Expr("drop_rows", "", 1) }         \* df.drop(df.index[:1], inplace=True)

Returns(v, frame) == [raised |-> FALSE, value |-> v, exc |-> NoExc, frame |-> frame]
Raises(cls, msg, frame) ==
    [raised |-> TRUE, value |-> NoneVal, exc |-> [cls |-> cls, msg |-> msg], frame |-> frame]

\* eval(code, {"__builtins__": {}}, {"df": df, "pd": pd}): the value or the
\* exception, and the Table afterwards (df is the one shared object)
Eval(code, frame) ==
    LET p == ColPos(frame, code.col) IN
    CASE code.op = "df" -> Returns(FrameVal(frame), frame)
      [] code.op = "getitem" ->
            IF p = 0 THEN Raises("KeyError", <<"'", code.col, "'">>, frame)
            ELSE Returns(SeriesVal(ColumnSeries(frame, code.col)), frame)
      [] code.op = "shape" ->
            Returns(OtherVal("int", NatToStr(Len(frame.rows))), frame)
      [] code.op = "open" ->
            Raises("NameError", <<"name 'open' is not defined">>, frame)
      [] code.op = "syntax" ->
            Raises("SyntaxError", <<"'[' was never closed (<string>, line 1)">>, frame)
      [] code.op = "add" ->
            IF p = 0 THEN Raises("KeyError", <<"'", code.col, "'">>, frame)
            ELSE IF frame.dtypes[p] = "object" /\ Len(frame.rows) > 0
            THEN Raises("TypeError",
                        <<"can only concatenate str (not \"int\") to str">>, frame)
            ELSE Returns(SeriesVal(ColumnSeries(frame, code.col)), frame)
      [] code.op = "exit" -> Raises("SystemExit", <<>>, frame)
      [] code.op = "drop_col" ->
            IF p = 0
            THEN Raises("KeyError", <<"\"['", code.col, "'] not found in axis\"">>, frame)
            ELSE Returns(NoneVal,
                    [ columns |-> RemoveAt(frame.columns, p),
                      dtypes  |-> RemoveAt(frame.dtypes, p),
                      rows    |-> [i \in 1..Len(frame.rows) |->
                                     [label |-> frame.rows[i].label,
                                      cells |-> RemoveAt(frame.rows[i].cells, p)]] ])
      [] code.op = "insert" ->
            IF p # 0
            THEN Raises("ValueError",
                        <<"cannot insert ", code.col, ", already exists">>, frame)
            ELSE Returns(NoneVal,
                    [ columns |-> <<code.col>> \o frame.columns,
                      dtypes  |-> <<"int64">> \o frame.dtypes,
                      rows    |-> [i \in 1..Len(frame.rows) |->
                                     [label |-> frame.rows[i].label,
                                      cells |-> <<IntCell(7)>> \o frame.rows[i].cells]] ])
      [] code.op = "astype" ->
            IF p = 0 THEN Raises("KeyError", <<"'", code.col, "'">>, frame)
            ELSE Returns(NoneVal,
                    [ columns |-> frame.columns,
                      dtypes  |-> [frame.dtypes EXCEPT ![p] = "object"],
                      rows    |-> [i \in 1..Len(frame.rows) |->
                                     [label |-> frame.rows[i].label,
                                      cells |-> [frame.rows[i].cells EXCEPT
                                                   ![p] = StrCell(@.s)]]] ])
      [] code.op = "assign" ->
            IF p = 0
            THEN Returns(NoneVal,
                    [ columns |-> Append(frame.columns, code.col),
                      dtypes  |-> Append(frame.dtypes, "int64"),
                      rows    |-> [i \in 1..Len(frame.rows) |->
                                     [label |-> frame.rows[i].label,
                                      cells |-> Append(frame.rows[i].cells,
                                                       IntCell(code.n))]] ])
            ELSE Returns(NoneVal,
                    [ columns |-> frame.columns,
                      dtypes  |-> [frame.dtypes EXCEPT ![p] = "int64"],
                      rows    |-> [i \in 1..Len(frame.rows) |->
                                     [label |-> frame.rows[i].label,
                                      cells |-> [frame.rows[i].cells EXCEPT
                                                   ![p] = IntCell(code.n)]]] ])
      [] code.op = "drop_rows" ->
            Returns(NoneVal,
                    [frame EXCEPT !.rows =
                        SubSeq(frame.rows, IF code.n < Len(frame.rows)
                                           THEN code.n + 1 ELSE Len(frame.rows) + 1,
                               Len(frame.rows))])

\* ------------------------------------------------------------ rendering
\* one row of DataFrame.to_string(): the index label, then the cells
RowLine(row) ==
    NatToStr(row.label) \o Concat([j \in 1..Len(row.cells) |-> <<" ">> \o row.cells[j].s])

\* DataFrame.to_string()
DataFrameToString(frame) ==
    IF Len(frame.rows) = 0 \/ Len(frame.columns) = 0
    THEN <<"Empty DataFrame\nColumns: [">>
         \o Concat([j \in 1..Len(frame.columns) |-> <<frame.columns[j], ",">>])
         \o <<"]\nIndex: [">>
         \o Concat([i \in 1..Len(frame.rows) |-> NatToStr(frame.rows[i].label) \o <<",">>])
         \o <<"]">>
    ELSE Concat([j \in 1..Len(frame.columns) |-> <<" ", frame.columns[j]>>])
         \o Concat([i \in 1..Len(frame.rows) |-> <<"\n">> \o RowLine(frame.rows[i])])

\* Series.to_string()
SeriesToString(items) ==
    IF Len(items) = 0 THEN <<"Series([], )">>
    ELSE Concat([i \in 1..Len(items) |->
                    (IF i = 1 THEN <<>> ELSE <<"\n">>)
                    \o NatToStr(items[i].label) \o <<" ">> \o items[i].val.s])

\* result.head(5) of a DataFrame
FrameHead(frame, k) == [frame EXCEPT !.rows = HeadOf(frame.rows, k)]

\* ------------------------------------------------------- query_dataframe
\* a handler that names one class only
ToolCatches_KeyErrorOnly(cls) == cls = "KeyError"

\* except Exception of query_dataframe
ToolCatches(cls) == cls \in ExceptionClasses

\* the formatting with >= in place of > in both length tests
FormatResult_AtThreshold(v) ==
    IF v.type = "DataFrame" THEN
        IF Len(v.frame.rows) >= TruncateOver
        THEN <<"DataFrame with ">> \o NatToStr(Len(v.frame.rows)) \o <<" rows:\n">>
             \o DataFrameToString(FrameHead(v.frame, HeadRows))
             \o <<"\n...(showing only first 5 rows)">>
        ELSE DataFrameToString(v.frame)
    ELSE IF v.type = "Series" THEN
        IF Len(v.items) >= TruncateOver
        THEN <<"Series with ">> \o NatToStr(Len(v.items)) \o <<" elements:\n">>
             \o SeriesToString(HeadOf(v.items, HeadRows))
             \o <<"\n...(showing first 5 elements)">>
        ELSE SeriesToString(v.items)
    ELSE v.text

\* the formatting of query_dataframe by the type of the result
FormatResult(v) ==
    IF v.type = "DataFrame" THEN
        IF Len(v.frame.rows) > TruncateOver
        THEN <<"DataFrame with ">> \o NatToStr(Len(v.frame.rows)) \o <<" rows:\n">>
             \o DataFrameToString(FrameHead(v.frame, HeadRows))
             \o <<"\n...(showing only first 5 rows)">>
        ELSE DataFrameToString(v.frame)
    ELSE IF v.type = "Series" THEN
        IF Len(v.items) > TruncateOver
        THEN <<"Series with ">> \o NatToStr(Len(v.items)) \o <<" elements:\n">>
             \o SeriesToString(HeadOf(v.items, HeadRows))
             \o <<"\n...(showing first 5 elements)">>
        ELSE SeriesToString(v.items)
    ELSE v.text

\* f"Error: {e}"
ErrorString(exc) == <<"Error: ">> \o exc.msg

\* query_dataframe(code) on the Table: what it returns or lets through, the
\* value eval gave, and the Table afterwards
query_dataframe(code, frame) ==
    LET r == Eval(code, frame) IN
    IF r.raised
    THEN IF ToolCatches(r.exc.cls)
         THEN [raised |-> FALSE, ret |-> ErrorString(r.exc), exc |-> r.exc,
               value |-> NoneVal, evalRaised |-> TRUE, frame |-> r.frame]
         ELSE [raised |-> TRUE, ret |-> <<>>, exc |-> r.exc,
               value |-> NoneVal, evalRaised |-> TRUE, frame |-> r.frame]
    ELSE [raised |-> FALSE, ret |-> FormatResult(r.value), exc |-> NoExc,
          value |-> r.value, evalRaised |-> FALSE, frame |-> r.frame]

\* ------------------------------------------------------ the model's reply
NoCode == Expr("", "", 0)

\* a tool-call entry: args is a dict that holds "code" or not
ToolCall(code) == [name |-> "query_dataframe", args |-> [keys |-> {"code"}, code |-> code]]
ToolCallNoCode == [name |-> "query_dataframe", args |-> [keys |-> {"query"}, code |-> NoCode]]

Contents == { <<>>, <<"I cannot answer that.">> }
SecondExprs == { Expr("shape", "", 0), Expr("drop_rows", "", 1) }

Reply(has, calls, content) ==
    [received |-> TRUE, has_tool_calls |-> has, tool_calls |-> calls, content |-> content]
NoReply == [Reply(FALSE, <<>>, <<>>) EXCEPT !.received = FALSE]

\* the responses model.invoke may return
Responses ==
    { Reply(has, <<>>, c) : has \in BOOLEAN, c \in Contents }
    \cup { Reply(TRUE, <<ToolCall(e)>>, <<>>) : e \in Exprs }
    \cup { Reply(TRUE, <<ToolCall(e), ToolCall(f)>>, <<>>) : e \in Exprs, f \in SecondExprs }
    \cup { Reply(TRUE, <<ToolCallNoCode>>, <<>>),
           Reply(TRUE, <<ToolCallNoCode, ToolCall(Expr("shape", "", 0))>>, <<>>) }

\* hasattr(response, 'tool_calls') and response.tool_calls
HasToolCalls(response) == response.has_tool_calls /\ Len(response.tool_calls) > 0

\* the last entry taken in place of the first
FirstToolCall_Last(response) == response.tool_calls[Len(response.tool_calls)]

\* response.tool_calls[0]
FirstToolCall(response) == response.tool_calls[1]

\* ------------------------------------------------------ run_agent's results
NoResult ==
    [keys |-> {}, question |-> <<>>, pandas_code |-> NoCode, result |-> <<>>,
     error |-> <<>>, message |-> <<>>]

\* a return that reports an executor error string under an "error" key
SuccessResult_ErrorKey(q, code, res) ==
    IF Len(res) > 0 /\ Head(res) = "Error: "
    THEN [keys |-> {"question", "error"}, question |-> q, pandas_code |-> NoCode,
          result |-> <<>>, error |-> res, message |-> <<>>]
    ELSE [keys |-> {"question", "pandas_code", "result"}, question |-> q,
          pandas_code |-> code, result |-> res, error |-> <<>>, message |-> <<>>]

\* {"question": ..., "pandas_code": ..., "result": ...}
SuccessResult(q, code, res) ==
    [keys |-> {"question", "pandas_code", "result"}, question |-> q,
     pandas_code |-> code, result |-> res, error |-> <<>>, message |-> <<>>]

\* the NoToolCall return without the model's text
NoToolCallResult_NoMessage(q, response) ==
    [keys |-> {"question", "error"}, question |-> q,
     pandas_code |-> NoCode, result |-> <<>>,
     error |-> <<"Failed to generate executable pandas code">>,
     message |-> <<>>]

\* {"question": ..., "error": "Failed to generate executable pandas code", "message": ...}
NoToolCallResult(q, response) ==
    [keys |-> {"question", "error", "message"}, question |-> q,
     pandas_code |-> NoCode, result |-> <<>>,
     error |-> <<"Failed to generate executable pandas code">>,
     message |-> response.content]

\* {"question": question, "error": str(e)}
FailureResult(q, exc) ==
    [keys |-> {"question", "error"}, question |-> q, pandas_code |-> NoCode,
     result |-> <<>>, error |-> exc.msg, message |-> <<>>]

\* a handler that names one class only
AgentCatches_ValueErrorOnly(cls) == cls = "ValueError"

\* except Exception of run_agent
AgentCatches(cls) == cls \in ExceptionClasses

KeyMissingError ==
    [cls |-> "ValueError",
     msg |-> <<"GROQ_API_KEY environment variable not set. Please set it to your Groq API key.">>]
FilePathError ==
    [cls |-> "ValueError",
     msg |-> <<"FILE_PATH environment variable not set. Please set it to the path of your CSV file.">>]

\* -------------------------------------------------------------- main
\* the test without lower()
IsExitLine_CaseSensitive(line) == line \in ExitWords

\* question.lower() in ('exit', 'quit')
IsExitLine(line) == Lower(line) \in ExitWords

\* a printed line: its text, and the expression it embeds, if any
Line(text) == [text |-> text, code |-> NoCode]
CodeLine(code) == [text |-> <<"(fence)python\n", "\n(fence)">>, code |-> code]

\* what main prints for a result
Printed(res) ==
    IF "error" \in res.keys
    THEN <<Line(<<"\n Error: ">> \o res.error)>>
         \o (IF "message" \in res.keys
             THEN <<Line(<<"Additional info: ">> \o res.message)>> ELSE <<>>)
    ELSE << Line(<<"\n Generated pandas code:">>),
            CodeLine(res.pandas_code),
            Line(<<"\n Result:">>),
            Line(res.result) >>

\* ------------------------------------------------------------- the state
VARIABLES
    pc,           \* where the process is
    env,          \* the environment: which of the two variables are set
    df,           \* the Table (the module-level df)
    loaded,       \* the Table as pd.read_csv returned it
    schema_info,  \* the module-level schema_info
    question,     \* the line main read last
    model,        \* run_agent: whether init_model returned a model
    prompt,       \* run_agent: query_input as rendered into the prompt
    response,     \* run_agent: what model.invoke returned
    pandas_code,  \* run_agent: the extracted expression
    tool,         \* what the call of query_dataframe did
    result,       \* what run_agent returned to main
    out,          \* what main printed since it last read a line
    uncaught,     \* the exception that ended the process, and where it came from
    turn,         \* lines read so far
    nInit,        \* calls of init_model in this request
    nPrompts,     \* prompts rendered since start-up
    nInvoke,      \* calls of model.invoke in this request
    nEval         \* calls of query_dataframe in this request

vars ==
    <<pc, env, df, loaded, schema_info, question, model, prompt, response,
      pandas_code, tool, result, out, uncaught, turn, nInit, nPrompts, nInvoke, nEval>>

locals == <<model, prompt, response, pandas_code, tool, result>>
counters == <<nInit, nPrompts, nInvoke, nEval>>

NoPrompt ==
    [built |-> FALSE, question |-> <<>>, columns |-> <<>>, dtypes |-> <<>>,
     sample_data |-> <<>>]
NoTool ==
    [called |-> FALSE, raised |-> FALSE, ret |-> <<>>, exc |-> NoExc,
     value |-> NoneVal, evalRaised |-> FALSE, before |-> EmptyFrame, code |-> NoCode]

Init ==
    /\ pc = "setup"
    /\ env \in [file_location : BOOLEAN, GROQ_API_KEY : BOOLEAN]
    /\ df = EmptyFrame
    /\ loaded = EmptyFrame
    /\ schema_info = extract_schema_info(EmptyFrame)
    /\ question = <<>>
    /\ model = FALSE
    /\ prompt = NoPrompt
    /\ response = NoReply
    /\ pandas_code = NoCode
    /\ tool = NoTool
    /\ result = NoResult
    /\ out = <<>>
    /\ uncaught = [exc |-> NoExc, from |-> ""]
    /\ turn = 0
    /\ nInit = 0
    /\ nPrompts = 0
    /\ nInvoke = 0
    /\ nEval = 0

\* an exception leaves the module or main: the process ends with it
Abort(exc, from) ==
    /\ pc' = "aborted"
    /\ uncaught' = [exc |-> exc, from |-> from]

\* ------------------------------------------------------- start-up cells
\* file_path = os.getenv("file_location"); if file_path is None: raise
CheckFilePath ==
    /\ pc = "setup"
    /\ IF env.file_location
       THEN pc' = "load" /\ UNCHANGED uncaught
       ELSE Abort(FilePathError, "module")
    /\ UNCHANGED <<env, df, loaded, schema_info, question, locals, out, turn, counters>>

\* df = pd.read_csv(file_path)
LoadData ==
    /\ pc = "load"
    /\ \E n \in InitRowCounts :
          /\ df' = ReadCsv(n)
          /\ loaded' = ReadCsv(n)
    /\ pc' = "schema"
    /\ UNCHANGED <<env, schema_info, question, locals, out, uncaught, turn, counters>>

\* pd.read_csv raises: logged, raised again
LoadFails ==
    /\ pc = "load"
    /\ Abort([cls |-> "FileNotFoundError", msg |-> <<"No such file or directory">>], "module")
    /\ UNCHANGED <<env, df, loaded, schema_info, question, locals, out, turn, counters>>

\* schema_info = extract_schema_info(df)
ComputeSchema ==
    /\ pc = "schema"
    /\ schema_info' = extract_schema_info(df)
    /\ pc' = "main"
    /\ UNCHANGED <<env, df, loaded, question, locals, out, uncaught, turn, counters>>

\* ---------------------------------------------------------------- main
\* the banner main prints from its own extract_schema_info(df)
Banner(frame) ==
    LET info == extract_schema_info(frame) IN
    << Line(<<"DataFrame Query Agent">>),
       Line(<<"Loaded DataFrame with ">> \o NatToStr(info.summary.rows)
            \o <<" rows and ">> \o NatToStr(info.summary.columns) \o <<" columns">>),
       Line(<<"Type 'exit' to quit\n">>) >>

MainStart ==
    /\ pc = "main"
    /\ out' = Banner(df)
    /\ pc' = "input"
    /\ UNCHANGED <<env, df, loaded, schema_info, question, locals, uncaught, turn, counters>>

\* one pass of while True up to the call of run_agent
ReadInput ==
    /\ pc = "input"
    /\ turn < MaxTurns
    /\ \E line \in Lines :
          /\ question' = line
          /\ IF IsExitLine(line)
             THEN /\ out' = <<Line(<<"Goodbye!">>)>>
                  /\ pc' = "done"
             ELSE /\ out' = <<>>
                  /\ pc' = "init_model"
    /\ turn' = turn + 1
    /\ nInit' = 0
    /\ nInvoke' = 0
    /\ nEval' = 0
    /\ UNCHANGED <<env, df, loaded, schema_info, locals, uncaught, nPrompts>>

\* input() raises (end of input)
InputFails ==
    /\ pc = "input"
    /\ turn < MaxTurns
    /\ Abort([cls |-> "EOFError", msg |-> <<"EOF when reading a line">>], "input")
    /\ UNCHANGED <<env, df, loaded, schema_info, question, locals, out, turn, counters>>

\* the printing of run_agent's result; the locals of the call are gone
PrintResult ==
    /\ pc = "print"
    /\ out' = Printed(result)
    /\ pc' = "input"
    /\ model' = FALSE
    /\ prompt' = NoPrompt
    /\ response' = NoReply
    /\ pandas_code' = NoCode
    /\ tool' = NoTool
    /\ result' = NoResult
    /\ UNCHANGED <<env, df, loaded, schema_info, question, uncaught, turn, counters>>

\* ------------------------------------------------------------ init_model
\* init_model without its check of the key
ApiKeyMissing_Unchecked(e) == FALSE

\* api_key is None
ApiKeyMissing(e) == ~e.GROQ_API_KEY

\* init_model(): the bound model, or the exception it logs and raises again;
\* providerOk is whether init_chat_model and bind_tools go through
init_model(e, providerOk) ==
    IF ApiKeyMissing(e) THEN [raised |-> TRUE, exc |-> KeyMissingError]
    ELSE IF ~providerOk
    THEN [raised |-> TRUE,
          exc |-> [cls |-> "ImportError", msg |-> <<"Unable to import langchain_groq">>]]
    ELSE [raised |-> FALSE, exc |-> NoExc]

\* ------------------------------------------------------------- run_agent
\* an exception reaches run_agent's try: except Exception turns it into the
\* Failure result, anything else leaves run_agent and main
Thrown(exc) ==
    IF AgentCatches(exc.cls)
    THEN /\ result' = FailureResult(question, exc)
         /\ pc' = "print"
         /\ UNCHANGED uncaught
    ELSE /\ Abort(exc, "run_agent")
         /\ UNCHANGED result

\* model = init_model()
InitModel ==
    /\ pc = "init_model"
    /\ nInit' = nInit + 1
    /\ \E providerOk \in BOOLEAN :
          LET m == init_model(env, providerOk) IN
          IF m.raised
          THEN Thrown(m.exc) /\ UNCHANGED model
          ELSE /\ model' = TRUE
               /\ pc' = "prompt"
               /\ UNCHANGED <<result, uncaught>>
    /\ UNCHANGED <<env, df, loaded, schema_info, question, prompt, response,
                   pandas_code, tool, out, turn, nPrompts, nInvoke, nEval>>

\* a Schema Summary computed afresh for each request
PromptSchema_Recomputed == extract_schema_info(df)

\* the Schema Summary run_agent reads: the module-level schema_info
PromptSchema == schema_info

\* query_input, rendered by query_prompt.format_messages(**query_input)
QueryInput(q, info) ==
    [built |-> TRUE, question |-> q, columns |-> info.columns,
     dtypes |-> info.dtypes, sample_data |-> info.sample_data]

BuildPrompt ==
    /\ pc = "prompt"
    /\ prompt' = QueryInput(question, PromptSchema)
    /\ nPrompts' = nPrompts + 1
    /\ pc' = "invoke"
    /\ UNCHANGED <<env, df, loaded, schema_info, question, model, response,
                   pandas_code, tool, result, out, uncaught, turn, nInit, nInvoke, nEval>>

\* the rendering of the prompt raises (the interpreter runs out of memory)
BuildPromptRaises ==
    /\ pc = "prompt"
    /\ Thrown([cls |-> "MemoryError", msg |-> <<>>])
    /\ UNCHANGED <<env, df, loaded, schema_info, question, model, prompt, response,
                   pandas_code, tool, out, turn, counters>>

\* response = model.invoke(query_message)
InvokeModel ==
    /\ pc = "invoke"
    /\ \E r \in Responses : response' = r
    /\ nInvoke' = nInvoke + 1
    /\ pc' = "extract"
    /\ UNCHANGED <<env, df, loaded, schema_info, question, model, prompt,
                   pandas_code, tool, result, out, uncaught, turn, nInit, nPrompts, nEval>>

\* model.invoke raises: the connection fails, or the user interrupts the wait
InvokeRaises ==
    /\ pc = "invoke"
    /\ \E exc \in { [cls |-> "ConnectionError", msg |-> <<"Connection error.">>],
                    [cls |-> "KeyboardInterrupt", msg |-> <<>>] } : Thrown(exc)
    /\ nInvoke' = nInvoke + 1
    /\ UNCHANGED <<env, df, loaded, schema_info, question, model, prompt, response,
                   pandas_code, tool, out, turn, nInit, nPrompts, nEval>>

\* if hasattr(response, 'tool_calls') and response.tool_calls: ... else: ...
ExtractToolCall ==
    /\ pc = "extract"
    /\ IF HasToolCalls(response)
       THEN LET args == FirstToolCall(response).args IN
            IF "code" \in args.keys
            THEN /\ pandas_code' = args.code
                 /\ pc' = "execute"
                 /\ UNCHANGED <<result, uncaught>>
            ELSE /\ Thrown([cls |-> "KeyError", msg |-> <<"'", "code", "'">>])
                 /\ UNCHANGED pandas_code
       ELSE /\ result' = NoToolCallResult(question, response)
            /\ pc' = "print"
            /\ UNCHANGED <<pandas_code, uncaught>>
    /\ UNCHANGED <<env, df, loaded, schema_info, question, model, prompt, response,
                   tool, out, turn, counters>>

\* a run_agent that evaluates again when the executor reports an error
AfterExecute_Retry(ret) ==
    IF Len(ret) > 0 /\ Head(ret) = "Error: " THEN "execute" ELSE "print"

\* where run_agent goes once query_dataframe has returned: to its return
AfterExecute(ret) == "print"

\* result = query_dataframe(pandas_code); return {...}
ExecuteQuery ==
    /\ pc = "execute"
    /\ LET t == query_dataframe(pandas_code, df) IN
          /\ df' = t.frame
          /\ tool' = [called |-> TRUE, raised |-> t.raised, ret |-> t.ret,
                      exc |-> t.exc, value |-> t.value, evalRaised |-> t.evalRaised,
                      before |-> df, code |-> pandas_code]
          /\ IF t.raised
             THEN Thrown(t.exc)
             ELSE /\ result' = SuccessResult(question, pandas_code, t.ret)
                  /\ pc' = AfterExecute(t.ret)
                  /\ UNCHANGED uncaught
    /\ nEval' = nEval + 1
    /\ UNCHANGED <<env, loaded, schema_info, question, model, prompt, response,
                   pandas_code, out, turn, nInit, nPrompts, nInvoke>>

Next ==
    \/ CheckFilePath
    \/ LoadData
    \/ LoadFails
    \/ ComputeSchema
    \/ MainStart
    \/ ReadInput
    \/ InputFails
    \/ InitModel
    \/ BuildPrompt
    \/ BuildPromptRaises
    \/ InvokeModel
    \/ InvokeRaises
    \/ ExtractToolCall
    \/ ExecuteQuery
    \/ PrintResult

Spec == Init /\ [][Next]_vars

\* ============================================================== claims
InRequest == pc \in {"init_model", "prompt", "invoke", "extract", "execute", "print"}
SuccessKeys == {"question", "pandas_code", "result"}
NoToolCallKeys == {"question", "error", "message"}
FailureKeys == {"question", "error"}

C2_SuccessIffToolCall ==
    (response.received /\ pc \in {"print", "aborted"}) =>
        /\ (result.keys = SuccessKeys) <=> (Len(response.tool_calls) > 0)
        /\ result.keys = SuccessKeys =>
              /\ result.pandas_code = response.tool_calls[1].args.code
              /\ tool.code = response.tool_calls[1].args.code

\* C2 (amended): for a response received without an exception, run_agent
\* returns the Success shape iff the response holds at least one tool-call
\* entry and the first entry's args hold "code"; the expression executed and
\* reported is the first entry's, further entries change nothing; and a
\* call that does not return at all had such a first entry, whose
\* evaluation raised outside the Exception hierarchy.
C2_SuccessIffFirstCallHasCode ==
    LET hasCode == /\ Len(response.tool_calls) > 0
                   /\ "code" \in response.tool_calls[1].args.keys
    IN  /\ (response.received /\ pc = "print") =>
              /\ (result.keys = SuccessKeys) <=> hasCode
              /\ result.keys = SuccessKeys =>
                    /\ result.pandas_code = response.tool_calls[1].args.code
                    /\ tool.code = response.tool_calls[1].args.code
                    /\ result.result = query_dataframe(response.tool_calls[1].args.code,
                                                       tool.before).ret
                    /\ df = Eval(response.tool_calls[1].args.code, tool.before).frame
                    /\ nEval = 1
        /\ (response.received /\ pc = "aborted" /\ uncaught.from = "run_agent") =>
              /\ hasCode
              /\ uncaught.exc.cls \notin ExceptionClasses

\* a response of two entries with different expressions ended in Success
C2_Witness ==
    /\ pc = "print"
    /\ Len(response.tool_calls) = 2
    /\ result.keys = SuccessKeys
    /\ response.tool_calls[2].args.code # response.tool_calls[1].args.code

\* C3 (as stated): query_dataframe never raises out to its caller, whatever
\* the expression.
C3_NeverRaises == tool.called => ~tool.raised

\* C3 (amended): every failure of the evaluation that is an exception
\* derived from Exception (bad syntax, unknown column, type error, a
\* disallowed name) is caught and returned as "Error: <message>";
\* query_dataframe lets through only exceptions outside the Exception
\* hierarchy, such as the SystemExit an expression can raise.
C3_ExceptionsBecomeErrorStrings ==
    tool.called =>
        LET r == Eval(tool.code, tool.before) IN
        /\ (r.raised /\ r.exc.cls \in ExceptionClasses) =>
              /\ ~tool.raised
              /\ tool.ret = <<"Error: ">> \o r.exc.msg
        /\ tool.raised => (r.raised /\ r.exc.cls \in BaseOnlyClasses)

\* an expression naming a built-in came back as an error string
C3_Witness ==
    /\ tool.called
    /\ tool.code.op = "open"
    /\ ~tool.raised
    /\ tool.ret = <<"Error: ", "name 'open' is not defined">>

\* C4: when the evaluation of the tool call's expression fails inside
\* query_dataframe, run_agent returns the Success shape {question,
\* pandas_code, result} with the executor's "Error: ..." string as result and
\* no error key, and main prints it under the generated code and Result.
C4_EvalErrorIsSuccessShape ==
    [][ (pc = "print" /\ tool.called /\ tool.evalRaised) =>
            /\ tool.ret = <<"Error: ">> \o Eval(tool.code, tool.before).exc.msg
            /\ result.keys = SuccessKeys
            /\ "error" \notin result.keys
            /\ result.question = question
            /\ result.pandas_code = tool.code
            /\ result.result = tool.ret
            /\ pc' = "input"
            /\ out' = << Line(<<"\n Generated pandas code:">>),
                         CodeLine(tool.code),
                         Line(<<"\n Result:">>),
                         Line(tool.ret) >> ]_vars

\* main has printed the error string of an unknown column as a Result
C4_Witness ==
    /\ pc = "input"
    /\ Len(out) = 4
    /\ out[2].code = Expr("getitem", "BadColumn", 0)
    /\ out[4].text = <<"Error: ", "'", "BadColumn", "'">>

\* C5 (as stated): run_agent never propagates an exception to main, and
\* every call ends in exactly one of the three result shapes.
C5_NeverPropagates ==
    /\ uncaught.from # "run_agent"
    /\ pc = "print" => result.keys \in {SuccessKeys, NoToolCallKeys, FailureKeys}

\* C5 (amended): every exception derived from Exception that is raised in
\* run_agent outside the executor's own catch (model initialisation, prompt
\* rendering, the model invocation, the extraction of the tool-call
\* argument) is caught and
\* turned into the Failure result {question, error: message}; every call
\* that returns ends in exactly one of the three shapes; run_agent lets
\* through to main only exceptions outside the Exception hierarchy
\* (KeyboardInterrupt, SystemExit).
C5_ExceptionsBecomeFailure ==
    LET initFailed == nInit = 1 /\ ~model
        promptFailed == model /\ ~prompt.built
        invokeFailed == nInvoke = 1 /\ ~response.received
        extractFailed == /\ response.received
                         /\ Len(response.tool_calls) > 0
                         /\ "code" \notin response.tool_calls[1].args.keys
    IN  /\ uncaught.from = "run_agent" => uncaught.exc.cls \in BaseOnlyClasses
        /\ pc = "print" =>
              /\ result.keys \in {SuccessKeys, NoToolCallKeys, FailureKeys}
              /\ result.question = question
              /\ (initFailed \/ promptFailed \/ invokeFailed \/ extractFailed) =>
                    /\ result.keys = FailureKeys
                    /\ result.message = <<>>
              /\ initFailed =>
                    result.error \in {KeyMissingError.msg, <<"Unable to import langchain_groq">>}
              /\ promptFailed => result.error = <<>>
              /\ invokeFailed => result.error = <<"Connection error.">>
              /\ extractFailed => result.error = <<"'", "code", "'">>
              /\ result.keys = FailureKeys =>
                    (initFailed \/ promptFailed \/ invokeFailed \/ extractFailed)

\* a failed model invocation came back as the Failure result
C5_Witness ==
    /\ pc = "print"
    /\ nInvoke = 1
    /\ ~response.received
    /\ result.keys = FailureKeys

\* C6: when the response holds no tool call (the list absent or empty),
\* run_agent returns exactly {question, error: "Failed to generate
\* executable pandas code", message: <the response's content>}.
C6_NoToolCallResult ==
    (pc = "print" /\ response.received
        /\ (~response.has_tool_calls \/ Len(response.tool_calls) = 0)) =>
        /\ result.keys = NoToolCallKeys
        /\ result.question = question
        /\ result.error = <<"Failed to generate executable pandas code">>
        /\ result.message = response.content
        /\ result.pandas_code = NoCode
        /\ result.result = <<>>

\* a reply of text alone, with no tool_calls attribute, was returned
C6_Witness ==
    /\ pc = "print"
    /\ response.received
    /\ ~response.has_tool_calls
    /\ response.content = <<"I cannot answer that.">>
    /\ result.message = <<"I cannot answer that.">>

\* C7: a DataFrame of more than 10 rows is returned as a header with its
\* true row count, the rendering of its first 5 rows and a truncation note;
\* one of 10 rows or fewer (10 and 0 included) as its full rendering; a
\* Series likewise by its elements; any other value as its str().
C7_TruncationLaw ==
    (tool.called /\ ~tool.evalRaised) =>
        LET v == tool.value
            rows == v.frame.rows
            firstRows == [v.frame EXCEPT !.rows = SubSeq(rows, 1, 5)]
        IN  /\ (v.type = "DataFrame" /\ Len(rows) > 10) =>
                  tool.ret = <<"DataFrame with ">> \o NatToStr(Len(rows)) \o <<" rows:\n">>
                             \o DataFrameToString(firstRows)
                             \o <<"\n...(showing only first 5 rows)">>
            /\ (v.type = "DataFrame" /\ Len(rows) <= 10) =>
                  tool.ret = DataFrameToString(v.frame)
            /\ (v.type = "Series" /\ Len(v.items) > 10) =>
                  tool.ret = <<"Series with ">> \o NatToStr(Len(v.items)) \o <<" elements:\n">>
                             \o SeriesToString(SubSeq(v.items, 1, 5))
                             \o <<"\n...(showing first 5 elements)">>
            /\ (v.type = "Series" /\ Len(v.items) <= 10) =>
                  tool.ret = SeriesToString(v.items)
            /\ v.type \notin {"DataFrame", "Series"} => tool.ret = v.text

\* a DataFrame of more than 10 rows was truncated
C7_Witness ==
    /\ tool.called
    /\ tool.value.type = "DataFrame"
    /\ Len(tool.value.frame.rows) > 10
    /\ tool.ret[Len(tool.ret)] = "\n...(showing only first 5 rows)"

\* C8 (as stated): the Schema Summary in the prompt of every request equals
\* extract_schema_info of the Table as it is at the time of the request.
C8_PromptSchemaIsCurrent ==
    pc = "invoke" =>
        /\ prompt.columns = extract_schema_info(df).columns
        /\ prompt.dtypes = extract_schema_info(df).dtypes
        /\ prompt.sample_data = extract_schema_info(df).sample_data

\* C8 (amended): the Schema Summary in the prompt of every request is the
\* one computed once at start-up, extract_schema_info of the Table as
\* loaded; it equals that of the current Table as long as no earlier
\* expression changed the Table, and is left stale by one that did.
C8_PromptSchemaIsStartupSnapshot ==
    /\ pc \notin {"setup", "load", "schema"} => schema_info = extract_schema_info(loaded)
    /\ prompt.built =>
          /\ prompt.question = question
          /\ prompt.columns = extract_schema_info(loaded).columns
          /\ prompt.dtypes = extract_schema_info(loaded).dtypes
          /\ prompt.sample_data = extract_schema_info(loaded).sample_data
    /\ (pc = "invoke" /\ df = loaded) =>
          /\ prompt.columns = extract_schema_info(df).columns
          /\ prompt.dtypes = extract_schema_info(df).dtypes
          /\ prompt.sample_data = extract_schema_info(df).sample_data

\* a prompt was built after an expression had dropped a column
C8_Witness ==
    /\ pc = "invoke"
    /\ prompt.built
    /\ df.columns # loaded.columns
    /\ prompt.columns # df.columns

\* C9: the loop ends exactly when the line read is "exit" or "quit" in any
\* case, without a call of run_agent for it; any other line goes to
\* run_agent, and whichever of the three results comes back is printed and
\* the loop reads the next line.
C9_LoopEndsOnExitWordOnly ==
    [][ /\ (pc = "input" /\ pc' # "aborted") =>
              IF Lower(question') \in {<<"e", "x", "i", "t">>, <<"q", "u", "i", "t">>}
              THEN pc' = "done" /\ nInit' = 0 /\ nInvoke' = 0 /\ nEval' = 0
              ELSE pc' = "init_model"
        /\ pc' = "done" =>
              /\ pc = "input"
              /\ Lower(question') \in {<<"e", "x", "i", "t">>, <<"q", "u", "i", "t">>}
        /\ pc = "print" =>
              /\ result.keys \in {SuccessKeys, NoToolCallKeys, FailureKeys}
              /\ pc' = "input"
              /\ out' = Printed(result)
              /\ turn' = turn ]_vars

\* the loop ended on "QUIT" after an earlier question was answered
C9_Witness ==
    /\ pc = "done"
    /\ question = <<"Q", "U", "I", "T">>
    /\ turn = 2
    /\ nInit = 0

\* C10: within one request query_dataframe is called once when a tool call
\* is extracted, also when it returns an "Error: ..." string, and not at all
\* on the NoToolCall path or when an exception comes first; the model is
\* invoked at most once.
C10_EvaluatedOnce ==
    /\ nEval <= 1
    /\ nInvoke <= 1
    /\ nInit <= 1
    /\ pc \in {"init_model", "prompt", "invoke", "extract", "execute"} => nEval = 0
    /\ pc \in {"init_model", "prompt", "invoke"} => nInvoke = 0
    /\ pc = "print" =>
          /\ result.keys = SuccessKeys => (nEval = 1 /\ nInvoke = 1)
          /\ result.keys # SuccessKeys => nEval = 0
          /\ tool.called <=> nEval = 1
    /\ (pc = "aborted" /\ uncaught.from = "run_agent") =>
          (nEval = 1 <=> tool.called)

\* a call returned after one evaluation that ended in an error string
C10_Witness ==
    /\ pc = "print"
    /\ nEval = 1
    /\ tool.evalRaised
    /\ result.result[1] = "Error: "

====
